---- MODULE Spec2Model ----
(***************************************************************************)
(* OperatorInstaller.InstallOperator                                       *)
(* (internal/olm/operator/registry/operator_installer.go) as a state       *)
(* machine: one installer run per element of Runs, stepping through the    *)
(* cluster calls of InstallOperator, against a cluster whose resources     *)
(* (operator groups, subscription, install plans, CSV) are also changed by *)
(* OLM and whose API server may fail any call.                             *)
(***************************************************************************)
EXTENDS Integers, Sequences, FiniteSets, TLC

\* ---------------------------------------------------------------- bounds
MaxNs == 2          \* longest namespace list tried
MaxRV == 2          \* writes OLM itself makes to one install plan
MaxPolls == 2       \* polls of the subscription that are recorded in the log

\* ------------------------------------------------------------- constants
Steps == 4          \* retry.DefaultBackoff.Steps

Runs == {1, 2}
Nil == "nil"
Namespace == "operators"                 \* o.cfg.Namespace
StartingCSV == "memcached.v0.0.1"        \* o.StartingCSV
PackageName == "memcached"               \* o.PackageName
Channel == "alpha"                       \* o.Channel
ApprovalManual == "Manual"               \* v1alpha1.ApprovalManual
SDKOperatorGroupName == "operator-sdk-og"
Namespaces == {"ns1", "ns2"}
CatalogNames == {"cat1", "cat2"}
IPNames == {"install-1", "install-2"}

\* lexical order of the namespace names, as sort.Strings compares them
NsRank(n) == IF n = "ns1" THEN 1 ELSE 2
NsLess(a, b) == NsRank(a) < NsRank(b)

RECURSIVE SeqsUpTo(_)
SeqsUpTo(n) ==
    IF n = 0 THEN {<<>>}
    ELSE LET S == SeqsUpTo(n - 1)
         IN S \cup {Append(s, x) : s \in {t \in S : Len(t) = n - 1}, x \in Namespaces}
NsLists == SeqsUpTo(MaxNs)

\* ---------------------------------------------------------------- errors
\* An error value: its message and the API status reason its dynamic type
\* carries ("" when it is not an API status error).
NoErr == [msg |-> "", reason |-> ""]
APIError(reason) == [msg |-> reason, reason |-> reason]
ErrWaitTimeout == [msg |-> "timed out waiting for the condition", reason |-> ""]

\* fmt.Errorf("<prefix>: %v", err): the cause is formatted into the text and
\* the result is a plain error, which no longer is an API status error.
ErrorfV(prefix, err) == [msg |-> prefix, reason |-> ""]
\* fmt.Errorf("<prefix>: %w", err): the cause stays reachable by unwrapping.
ErrorfW(prefix, err) == [msg |-> prefix, reason |-> err.reason]
\* fmt.Errorf("<text>") with no cause
ErrorfNew(text) == [msg |-> text, reason |-> ""]

\* apierrors.IsConflict
IsConflict(err) == err.reason = "Conflict"

VARIABLES
    \* the cluster
    apiDown,        \* the API server fails every call while TRUE
    ogs,            \* operator groups of Namespace: set of [name, spec, status]
    clusterSub,     \* the subscription of StartingCSV in Namespace: [exists, spec, ref]
    ips,            \* install plans: IPNames -> [exists, approved, rv]
    csvPhase,       \* phase of the CSV StartingCSV in Namespace
    \* each run of InstallOperator
    ctxDone,        \* ctx.Done() is closed
    InstallMode,    \* o.InstallMode.TargetNamespaces, a slice
    pc,             \* position in InstallOperator
    cs,             \* name of the catalog source CreateCatalog returned
    ogList,         \* ogList.Items as returned by List
    sub,            \* the local *Subscription: [name, ref]
    ipKey,          \* ipKey in approveInstallPlan: [name, namespace]
    ip,             \* the local InstallPlan: [name, approved, rv]
    backoff,        \* backoff.Steps left in wait.ExponentialBackoff
    retErr,         \* InstallOperator's returned error
    retCSV,         \* InstallOperator's returned CSV (its name, or Nil)
    \* history
    log,            \* the calls each run has issued, in order (see Entry)
    stepResult,     \* how each helper step of each run returned: "", "ok" or "failed"
    observedRef     \* the reference the last successful poll of the run read

vars == <<apiDown, ogs, clusterSub, ips, csvPhase, ctxDone, InstallMode, pc, cs,
          ogList, sub, ipKey, ip, backoff, retErr, retCSV, log, stepResult,
          observedRef>>

cluster == <<apiDown, ogs, clusterSub, ips, csvPhase>>

\* ---------------------------------------------------------------- values
\* A Go slice of namespaces: nil, or a (possibly empty) list.
NilSlice == [isNil |-> TRUE, items |-> <<>>]
Slice(s) == [isNil |-> FALSE, items |-> s]
Slices == {NilSlice} \cup {Slice(s) : s \in NsLists}

\* sub.Status.InstallPlanRef: nil, or the name and namespace of an install plan
NilRef == [isNil |-> TRUE, name |-> "", namespace |-> ""]
Ref(n) == [isNil |-> FALSE, name |-> n, namespace |-> Namespace]

NoIP == [name |-> "", approved |-> FALSE, rv |-> 0]
NoKey == [name |-> "", namespace |-> ""]
NoOG == [name |-> "", spec |-> <<>>, status |-> NilSlice]
NoSub == [name |-> "", ref |-> NilRef]

\* the name newSubscription gives the subscription: the CSV name as a DNS-1123
\* name, with the suffix -sub
getSubscriptionName == [c \in {StartingCSV} |-> "memcached-v0-0-1-sub"]

\* no subscription, and a subscription of that name that somebody else made
NoSubscription ==
    [name |-> "", namespace |-> "", package |-> "", channel |-> "", startingCSV |-> "",
     catalogSource |-> "", catalogSourceNamespace |-> "", approval |-> ""]
OtherSubscription ==
    [name |-> getSubscriptionName[StartingCSV], namespace |-> Namespace,
     package |-> PackageName, channel |-> "stable", startingCSV |-> "",
     catalogSource |-> "cat1", catalogSourceNamespace |-> "olm",
     approval |-> "Automatic"]

Entry(op, ns, name, err) == [op |-> op, ns |-> ns, name |-> name, reason |-> err.reason,
                             ok |-> err = NoErr]

\* ------------------------------------------------- createOperatorGroup
\* Faulty variant of SortStrings: the slice is left in the order it came in.
SortStringsMissing(s) == s

\* sort.Strings on a slice
SortStrings(s) == [isNil |-> s.isNil, items |-> SortSeq(s.items, NsLess)]

\* reflect.DeepEqual on two []string: a nil slice differs from an empty one
DeepEqual(a, b) == a.isNil = b.isNil /\ a.items = b.items

\* targetNamespaces := make([]string, len(T), cap(T)); copy(targetNamespaces, T)
CopyTargetNamespaces(T) == Slice(T.items)

\* Faulty variant of InitNamespaces: a nil status list is left nil.
InitNamespacesMissing(status) == status

\* if og.Status.Namespaces == nil { og.Status.Namespaces = []string{} }
InitNamespaces(status) == IF status.isNil THEN Slice(<<>>) ELSE status

\* the comparison of createOperatorGroup's ogFound branch
NamespacesMatch(status, targetNamespaces) ==
    DeepEqual(SortStrings(InitNamespaces(status)), SortStrings(targetNamespaces))

\* the error of the ogFound branch, NoErr when the group is compatible
CompatibilityError(og, targetNamespaces) ==
    IF ~NamespacesMatch(og.status, targetNamespaces)
    THEN IF og.name = SDKOperatorGroupName
         THEN ErrorfNew("existing SDK-managed operator group's namespaces do not match desired namespaces")
         ELSE ErrorfNew("existing operator group's namespaces do not match desired namespaces")
    ELSE NoErr

\* Faulty variant of getOperatorGroup: any number of groups other than one
\* counts as none.
getOperatorGroupNoneUnlessOne(listErr, items) ==
    IF listErr # NoErr THEN [og |-> NoOG, found |-> FALSE, err |-> listErr]
    ELSE IF Cardinality(items) # 1 THEN [og |-> NoOG, found |-> FALSE, err |-> NoErr]
    ELSE [og |-> CHOOSE g \in items : TRUE, found |-> TRUE, err |-> NoErr]

\* Faulty variant of getOperatorGroup: of several groups the first is used.
getOperatorGroupFirst(listErr, items) ==
    IF listErr # NoErr THEN [og |-> NoOG, found |-> FALSE, err |-> listErr]
    ELSE IF Cardinality(items) = 0 THEN [og |-> NoOG, found |-> FALSE, err |-> NoErr]
    ELSE [og |-> CHOOSE g \in items : TRUE, found |-> TRUE, err |-> NoErr]

\* getOperatorGroup, given what List returned: (og, found, err)
getOperatorGroup(listErr, items) ==
    IF listErr # NoErr THEN [og |-> NoOG, found |-> FALSE, err |-> listErr]
    ELSE IF Cardinality(items) = 0 THEN [og |-> NoOG, found |-> FALSE, err |-> NoErr]
    ELSE IF Cardinality(items) # 1
         THEN [og |-> NoOG, found |-> TRUE,
               err |-> ErrorfNew("more than one operator group in namespace")]
    ELSE [og |-> CHOOSE g \in items : TRUE, found |-> TRUE, err |-> NoErr]

\* newSDKOperatorGroup(namespace, withTargetNamespaces(targetNamespaces...))
newSDKOperatorGroup(targetNamespaces) ==
    [name |-> SDKOperatorGroupName, spec |-> targetNamespaces.items, status |-> NilSlice]

\* ------------------------------------------------------ InstallOperator
StepNames == <<"CreateCatalog", "createOperatorGroup", "createSubscription",
               "waitForInstallPlan", "approveInstallPlan", "getInstalledCSV">>
StepSet == {StepNames[i] : i \in DOMAIN StepNames}

\* Faulty variant of InstallOperatorNext: the operator group step is left out.
InstallOperatorNextSkipping(step, err) ==
    IF err # NoErr THEN "done"
    ELSE CASE step = "CreateCatalog" -> "createSubscription"
           [] step = "createOperatorGroup" -> "createSubscription"
           [] step = "createSubscription" -> "waitForInstallPlan"
           [] step = "waitForInstallPlan" -> "approveInstallPlan"
           [] step = "approveInstallPlan" -> "getInstalledCSV"
           [] step = "getInstalledCSV" -> "done"

\* Faulty variant of InstallOperatorNext: the error of createSubscription is
\* not checked.
InstallOperatorNextUnchecked(step, err) ==
    IF err # NoErr /\ step # "createSubscription" THEN "done"
    ELSE CASE step = "CreateCatalog" -> "getOperatorGroup"
           [] step = "createOperatorGroup" -> "createSubscription"
           [] step = "createSubscription" -> "waitForInstallPlan"
           [] step = "waitForInstallPlan" -> "approveInstallPlan"
           [] step = "approveInstallPlan" -> "getInstalledCSV"
           [] step = "getInstalledCSV" -> "done"

\* where InstallOperator goes when a helper returns err: each `if err != nil`
\* returns, and otherwise the next helper is called
InstallOperatorNext(step, err) ==
    IF err # NoErr THEN "done"
    ELSE CASE step = "CreateCatalog" -> "getOperatorGroup"
           [] step = "createOperatorGroup" -> "createSubscription"
           [] step = "createSubscription" -> "waitForInstallPlan"
           [] step = "waitForInstallPlan" -> "approveInstallPlan"
           [] step = "approveInstallPlan" -> "getInstalledCSV"
           [] step = "getInstalledCSV" -> "done"

\* a helper of run r returns err to InstallOperator
StepReturn(r, step, err) ==
    /\ pc' = [pc EXCEPT ![r] = InstallOperatorNext(step, err)]
    /\ retErr' = [retErr EXCEPT ![r] = IF pc'[r] = "done" THEN err ELSE @]
    /\ stepResult' = [stepResult EXCEPT ![r][step] = IF err = NoErr THEN "ok" ELSE "failed"]

\* run r stays inside its helper, at position p
Goto(r, p) ==
    /\ pc' = [pc EXCEPT ![r] = p]
    /\ UNCHANGED <<retErr, stepResult>>

Call(r, e) == log' = [log EXCEPT ![r] = Append(@, e)]

\* ------------------------------------------------------------------ Init
MkOG(n, st) == [name |-> n, spec |-> st.items, status |-> st]

InitialGroups ==
    {{}} \cup {{MkOG(n, st)} : n \in {SDKOperatorGroupName, "og-a"}, st \in Slices}
         \cup {{MkOG("og-a", NilSlice), MkOG(n, NilSlice)} : n \in {SDKOperatorGroupName, "og-b"}}

InitRuns(active) ==
    /\ apiDown = FALSE
    /\ ogs \in InitialGroups
    /\ clusterSub \in {[exists |-> FALSE, spec |-> NoSubscription, ref |-> NilRef],
                        [exists |-> TRUE, spec |-> OtherSubscription, ref |-> NilRef]}
    /\ ips = [n \in IPNames |-> [exists |-> FALSE, approved |-> FALSE, rv |-> 0]]
    /\ csvPhase = "Absent"
    /\ ctxDone = [r \in Runs |-> FALSE]
    /\ InstallMode \in [Runs -> Slices]
    /\ \A r \in Runs \ active : InstallMode[r] = NilSlice
    /\ pc = [r \in Runs |-> IF r \in active THEN "CreateCatalog" ELSE "idle"]
    /\ cs = [r \in Runs |-> Nil]
    /\ ogList = [r \in Runs |-> {}]
    /\ sub = [r \in Runs |-> NoSub]
    /\ ipKey = [r \in Runs |-> NoKey]
    /\ ip = [r \in Runs |-> NoIP]
    /\ backoff = [r \in Runs |-> 0]
    /\ retErr = [r \in Runs |-> NoErr]
    /\ retCSV = [r \in Runs |-> Nil]
    /\ log = [r \in Runs |-> <<>>]
    /\ stepResult = [r \in Runs |-> [s \in StepSet |-> ""]]
    /\ observedRef = [r \in Runs |-> NilRef]

Init == InitRuns({1})

\* what the API server answers to any call while it is down
Unavailable == APIError("ServiceUnavailable")

\* ------------------------------------------------------ InstallOperator
\* cs, err := o.CatalogCreator.CreateCatalog(ctx, o.CatalogSourceName)
CreateCatalog(r) ==
    /\ pc[r] = "CreateCatalog"
    /\ \E res \in CatalogNames \cup {Nil} :
          LET e == IF res = Nil THEN ErrorfNew("catalog creator failed") ELSE NoErr
          IN /\ cs' = [cs EXCEPT ![r] = res]
             /\ Call(r, Entry("CreateCatalog", Namespace, res, e))
             /\ StepReturn(r, "CreateCatalog",
                           IF e # NoErr THEN ErrorfV("create catalog", e) ELSE NoErr)
    /\ UNCHANGED <<cluster, ctxDone, InstallMode, ogList, sub, ipKey, ip, backoff,
                   retCSV, observedRef>>

\* createOperatorGroup up to the end of its ogFound branch: the List of
\* getOperatorGroup and the compatibility check of the group it found
createOperatorGroup_List(r) ==
    /\ pc[r] = "getOperatorGroup"
    /\ LET targetNamespaces == CopyTargetNamespaces(InstallMode[r])
           listErr == IF apiDown THEN Unavailable ELSE NoErr
           items == IF apiDown THEN {} ELSE ogs
           got == getOperatorGroup(listErr, items)
       IN /\ ogList' = [ogList EXCEPT ![r] = items]
          /\ Call(r, Entry("ListOperatorGroups", Namespace, "", listErr))
          /\ IF got.err # NoErr
             THEN StepReturn(r, "createOperatorGroup", got.err)
             ELSE IF got.found
             THEN StepReturn(r, "createOperatorGroup",
                             CompatibilityError(got.og, targetNamespaces))
             ELSE Goto(r, "createOperatorGroup")
    /\ UNCHANGED <<cluster, ctxDone, InstallMode, cs, sub, ipKey, ip, backoff, retCSV,
                   observedRef>>

\* Faulty variant of createOperatorGroupError: the error of Create is dropped,
\* a group that exists already is taken as created.
createOperatorGroupErrorIgnored(e) == NoErr

\* if err = o.cfg.Client.Create(ctx, og); err != nil { return ... }
createOperatorGroupError(e) ==
    IF e # NoErr THEN ErrorfW("error creating OperatorGroup", e) ELSE NoErr

\* the else branch of createOperatorGroup: o.cfg.Client.Create(ctx, og)
createOperatorGroup_Create(r) ==
    /\ pc[r] = "createOperatorGroup"
    /\ LET og == newSDKOperatorGroup(CopyTargetNamespaces(InstallMode[r]))
           e == IF apiDown THEN Unavailable
                ELSE IF \E g \in ogs : g.name = og.name THEN APIError("AlreadyExists")
                ELSE NoErr
       IN /\ ogs' = IF e = NoErr THEN ogs \cup {og} ELSE ogs
          /\ Call(r, Entry("CreateOperatorGroup", Namespace, og.name, e))
          /\ StepReturn(r, "createOperatorGroup", createOperatorGroupError(e))
    /\ UNCHANGED <<apiDown, clusterSub, ips, csvPhase, ctxDone, InstallMode, cs, ogList,
                   sub, ipKey, ip, backoff, retCSV, observedRef>>

\* newSubscription(o.StartingCSV, o.cfg.Namespace, withPackageChannel(...),
\* withCatalogSource(cs.GetName(), o.cfg.Namespace),
\* withInstallPlanApproval(v1alpha1.ApprovalManual))
newSubscription(csName) ==
    [name |-> getSubscriptionName[StartingCSV], namespace |-> Namespace,
     package |-> PackageName, channel |-> Channel, startingCSV |-> StartingCSV,
     catalogSource |-> csName, catalogSourceNamespace |-> Namespace,
     approval |-> ApprovalManual]

\* Faulty variant of createSubscriptionError: the error of Create is dropped.
createSubscriptionErrorIgnored(e) == NoErr

\* if err := o.cfg.Client.Create(ctx, sub); err != nil { return nil, ... }
createSubscriptionError(e) ==
    IF e # NoErr THEN ErrorfW("error creating subscription", e) ELSE NoErr

\* createSubscription: o.cfg.Client.Create(ctx, sub)
createSubscription(r) ==
    /\ pc[r] = "createSubscription"
    /\ LET e == IF apiDown THEN Unavailable
                ELSE IF clusterSub.exists THEN APIError("AlreadyExists")
                ELSE NoErr
           new == newSubscription(cs[r])
       IN /\ clusterSub' = IF e = NoErr
                           THEN [exists |-> TRUE, spec |-> new, ref |-> NilRef]
                           ELSE clusterSub
          /\ sub' = [sub EXCEPT ![r] = IF e = NoErr
                                       THEN [name |-> new.name, ref |-> NilRef]
                                       ELSE @]
          /\ Call(r, Entry("CreateSubscription", new.namespace, new.name, e))
          /\ StepReturn(r, "createSubscription", createSubscriptionError(e))
    /\ UNCHANGED <<apiDown, ogs, ips, csvPhase, ctxDone, InstallMode, cs, ogList, ipKey,
                   ip, backoff, retCSV, observedRef>>

\* ---------------------------------------------------- waitForInstallPlan
NumCalls(l, op) == Cardinality({i \in DOMAIN l : l[i].op = op})

\* the first MaxPolls polls of a run are recorded
CallPoll(r, e) ==
    log' = [log EXCEPT ![r] = IF NumCalls(@, e.op) < MaxPolls THEN Append(@, e) ELSE @]

\* Faulty variant of ipCheckDone: the reference is not looked at.
ipCheckDoneAlways(ref) == TRUE

\* if sub.Status.InstallPlanRef != nil { return true, nil }
ipCheckDone(ref) == ~ref.isNil

\* Faulty variant of waitForInstallPlanError: a timeout of the poll is not
\* reported.
waitForInstallPlanErrorLosingTimeout(err) ==
    IF err # NoErr /\ err # ErrWaitTimeout
    THEN ErrorfV("install plan is not available for the subscription", err)
    ELSE NoErr

\* if err := wait.PollImmediateUntil(...); err != nil { return fmt.Errorf(...) }
waitForInstallPlanError(err) ==
    IF err # NoErr
    THEN ErrorfV("install plan is not available for the subscription", err)
    ELSE NoErr

\* one call of ipCheck by run r; `again` is where the poll goes on when the
\* condition reports (false, nil)
ipCheck(r, again) ==
    LET e == IF apiDown THEN Unavailable
             ELSE IF ~clusterSub.exists THEN APIError("NotFound")
             ELSE NoErr
        read == IF e = NoErr THEN clusterSub.ref ELSE sub[r].ref
    IN /\ sub' = [sub EXCEPT ![r].ref = read]
       /\ observedRef' = [observedRef EXCEPT ![r] = IF e = NoErr THEN clusterSub.ref ELSE @]
       /\ CallPoll(r, Entry("GetSubscription", Namespace, sub[r].name, e))
       /\ IF e # NoErr THEN StepReturn(r, "waitForInstallPlan", waitForInstallPlanError(e))
          ELSE IF ipCheckDone(read) THEN StepReturn(r, "waitForInstallPlan", NoErr)
          ELSE Goto(r, again)

\* wait.PollImmediateUntil: the condition is tried once before any wait
waitForInstallPlan_Immediate(r) ==
    /\ pc[r] = "waitForInstallPlan"
    /\ ipCheck(r, "waitSelect")
    /\ UNCHANGED <<cluster, ctxDone, InstallMode, cs, ogList, ipKey, ip, backoff, retCSV>>

\* wait.PollImmediateUntil: select { case <-stopCh: return ErrWaitTimeout; default: }
waitForInstallPlan_Select(r) ==
    /\ pc[r] = "waitSelect"
    /\ IF ctxDone[r]
       THEN StepReturn(r, "waitForInstallPlan", waitForInstallPlanError(ErrWaitTimeout))
       ELSE Goto(r, "waitLoop")
    /\ UNCHANGED <<cluster, ctxDone, InstallMode, cs, ogList, sub, ipKey, ip, backoff,
                   retCSV, log, observedRef>>

\* wait.WaitFor: a tick of the 200ms poller runs the condition
waitForInstallPlan_Tick(r) ==
    /\ pc[r] = "waitLoop"
    /\ ipCheck(r, "waitLoop")
    /\ UNCHANGED <<cluster, ctxDone, InstallMode, cs, ogList, ipKey, ip, backoff, retCSV>>

\* wait.WaitFor: case <-done: return ErrWaitTimeout
waitForInstallPlan_Stop(r) ==
    /\ pc[r] = "waitLoop"
    /\ ctxDone[r]
    /\ StepReturn(r, "waitForInstallPlan", waitForInstallPlanError(ErrWaitTimeout))
    /\ UNCHANGED <<cluster, ctxDone, InstallMode, cs, ogList, sub, ipKey, ip, backoff,
                   retCSV, log, observedRef>>

\* ---------------------------------------------------- approveInstallPlan
\* Faulty variant of RetryOnConflict: fn is called again after any error,
\* whatever is left of the backoff.
RetryOnAnyError(err, stepsLeft) ==
    IF err = NoErr THEN [again |-> FALSE, err |-> NoErr]
    ELSE [again |-> TRUE, err |-> NoErr]

\* retry.RetryOnConflict(retry.DefaultBackoff, fn), after fn returned err with
\* stepsLeft = backoff.Steps: return nil, return the error, or call fn again
RetryOnConflict(err, stepsLeft) ==
    IF err = NoErr THEN [again |-> FALSE, err |-> NoErr]
    ELSE IF ~IsConflict(err) THEN [again |-> FALSE, err |-> err]
    ELSE IF stepsLeft <= 1 THEN [again |-> FALSE, err |-> err]
    ELSE [again |-> TRUE, err |-> NoErr]

\* fn of run r returned err
fnReturn(r, err) ==
    LET out == RetryOnConflict(err, backoff[r])
    IN IF out.again
       THEN /\ backoff' = [backoff EXCEPT ![r] = @ - 1]
            /\ Goto(r, "approveGet")
       ELSE /\ UNCHANGED backoff
            /\ StepReturn(r, "approveInstallPlan", out.err)

\* entry of approveInstallPlan: ipKey is read from sub.Status.InstallPlanRef,
\* which panics on a nil reference
approveInstallPlan(r) ==
    /\ pc[r] = "approveInstallPlan"
    /\ IF sub[r].ref.isNil
       THEN /\ Goto(r, "panic")
            /\ UNCHANGED <<ipKey, backoff>>
       ELSE /\ ipKey' = [ipKey EXCEPT ![r] = [name |-> sub[r].ref.name,
                                              namespace |-> sub[r].ref.namespace]]
            /\ backoff' = [backoff EXCEPT ![r] = Steps]
            /\ Goto(r, "approveGet")
    /\ UNCHANGED <<cluster, ctxDone, InstallMode, cs, ogList, sub, ip, retCSV, log,
                   observedRef>>

\* Faulty variant of SetApproved: the assignment is missing, the install plan
\* goes back as it was read.
SetApprovedMissing(plan) == plan

\* ip.Spec.Approved = true, on the install plan just read
SetApproved(plan) == [plan EXCEPT !.approved = TRUE]

\* fn: o.cfg.Client.Get(ctx, ipKey, &ip); ip.Spec.Approved = true
approveInstallPlan_Get(r) ==
    /\ pc[r] = "approveGet"
    /\ LET k == ipKey[r]
           e == IF apiDown THEN Unavailable
                ELSE IF k.namespace # Namespace \/ ~ips[k.name].exists
                THEN APIError("NotFound")
                ELSE NoErr
       IN /\ Call(r, Entry("GetInstallPlan", k.namespace, k.name, e))
          /\ IF e # NoErr
             THEN /\ fnReturn(r, ErrorfV("error getting install plan", e))
                  /\ UNCHANGED ip
             ELSE /\ ip' = [ip EXCEPT ![r] =
                              SetApproved([name |-> k.name,
                                           approved |-> ips[k.name].approved,
                                           rv |-> ips[k.name].rv])]
                  /\ Goto(r, "approveUpdate")
                  /\ UNCHANGED backoff
    /\ UNCHANGED <<cluster, ctxDone, InstallMode, cs, ogList, sub, ipKey, retCSV,
                   observedRef>>

\* fn: o.cfg.Client.Update(ctx, &ip)
approveInstallPlan_Update(r) ==
    /\ pc[r] = "approveUpdate"
    /\ LET n == ip[r].name
           e == IF apiDown THEN Unavailable
                ELSE IF ip[r].rv # ips[n].rv THEN APIError("Conflict")
                ELSE NoErr
       IN /\ Call(r, Entry("UpdateInstallPlan", ipKey[r].namespace, n, e))
          /\ ips' = IF e = NoErr
                    THEN [ips EXCEPT ![n] = [exists |-> TRUE, approved |-> ip[r].approved,
                                             rv |-> @.rv + 1]]
                    ELSE ips
          /\ ip' = [ip EXCEPT ![r].rv = IF e = NoErr THEN @ + 1 ELSE @]
          /\ fnReturn(r, IF e # NoErr THEN ErrorfV("error approving install plan", e)
                         ELSE NoErr)
    /\ UNCHANGED <<apiDown, ogs, clusterSub, csvPhase, ctxDone, InstallMode, cs, ogList,
                   sub, ipKey, retCSV, observedRef>>

\* ------------------------------------------------------- getInstalledCSV
\* c, err := olmclient.NewClientForConfig(o.cfg.RESTConfig)
getInstalledCSV(r) ==
    /\ pc[r] = "getInstalledCSV"
    /\ \E ok \in BOOLEAN :
          IF ok THEN Goto(r, "DoCSVWait")
          ELSE StepReturn(r, "getInstalledCSV", ErrorfNew("cannot build the OLM client"))
    /\ UNCHANGED <<cluster, ctxDone, InstallMode, cs, ogList, sub, ipKey, ip, backoff,
                   retCSV, log, observedRef>>

\* Faulty variant of DoCSVWaitReturn: the error of DoCSVWait is dropped.
DoCSVWaitReturnDropping(r, e) ==
    /\ Call(r, Entry("DoCSVWait", Namespace, StartingCSV, e))
    /\ Goto(r, "getCSV")

\* if err = c.DoCSVWait(ctx, nn); err != nil { return nil, fmt.Errorf(...) }
DoCSVWaitReturn(r, e) ==
    /\ Call(r, Entry("DoCSVWait", Namespace, StartingCSV, e))
    /\ IF e # NoErr
       THEN StepReturn(r, "getInstalledCSV", ErrorfW("error waiting for CSV to install", e))
       ELSE Goto(r, "getCSV")

\* c.DoCSVWait(ctx, nn): a poll of the CSV's phase
DoCSVWait_Poll(r) ==
    /\ pc[r] = "DoCSVWait"
    /\ IF apiDown THEN DoCSVWaitReturn(r, Unavailable)
       ELSE IF csvPhase = "Failed" THEN DoCSVWaitReturn(r, ErrorfNew("csv failed"))
       ELSE IF csvPhase = "Succeeded" THEN DoCSVWaitReturn(r, NoErr)
       ELSE Goto(r, "DoCSVWait") /\ UNCHANGED log
    /\ UNCHANGED <<cluster, ctxDone, InstallMode, cs, ogList, sub, ipKey, ip, backoff,
                   retCSV, observedRef>>

\* c.DoCSVWait(ctx, nn): the context is done before the CSV is ready
DoCSVWait_Stop(r) ==
    /\ pc[r] = "DoCSVWait"
    /\ ctxDone[r]
    /\ DoCSVWaitReturn(r, ErrWaitTimeout)
    /\ UNCHANGED <<cluster, ctxDone, InstallMode, cs, ogList, sub, ipKey, ip, backoff,
                   retCSV, observedRef>>

\* o.cfg.Client.Get(ctx, nn, csv); return csv, nil
getInstalledCSV_Get(r) ==
    /\ pc[r] = "getCSV"
    /\ LET e == IF apiDown THEN Unavailable
                ELSE IF csvPhase = "Absent" THEN APIError("NotFound")
                ELSE NoErr
       IN /\ Call(r, Entry("GetCSV", Namespace, StartingCSV, e))
          /\ StepReturn(r, "getInstalledCSV",
                        IF e # NoErr THEN ErrorfW("error getting installed CSV", e)
                        ELSE NoErr)
          /\ retCSV' = [retCSV EXCEPT ![r] = IF e = NoErr /\ pc'[r] = "done"
                                             THEN StartingCSV ELSE @]
    /\ UNCHANGED <<cluster, ctxDone, InstallMode, cs, ogList, sub, ipKey, ip, backoff,
                   observedRef>>

\* ------------------------------------------------------------ the cluster
locals == <<InstallMode, pc, cs, ogList, sub, ipKey, ip, backoff, retErr, retCSV, log,
            stepResult, observedRef>>

Running(r) == pc[r] \notin {"idle", "done", "panic"}

\* the caller cancels the context of run r
Cancel(r) ==
    /\ Running(r)
    /\ ~ctxDone[r]
    /\ ctxDone' = [ctxDone EXCEPT ![r] = TRUE]
    /\ UNCHANGED <<cluster, locals>>

\* the cluster is followed while a run of InstallOperator is under way
Watched == \E r \in Runs : Running(r)

\* the API server becomes unavailable, or available again
APIServerFlip ==
    /\ Watched
    /\ apiDown' = ~apiDown
    /\ UNCHANGED <<ogs, clusterSub, ips, csvPhase, ctxDone, locals>>

\* OLM resolves the subscription: it creates an install plan and points
\* status.installPlanRef at it; a later resolution replaces the reference
OLMResolveSubscription ==
    /\ Watched
    /\ clusterSub.exists
    /\ \E n \in IPNames :
          /\ ~ips[n].exists
          /\ clusterSub.ref.isNil => n = "install-1"
          /\ ips' = [ips EXCEPT ![n] = [exists |-> TRUE, approved |-> FALSE, rv |-> 1]]
          /\ clusterSub' = [clusterSub EXCEPT !.ref = Ref(n)]
    /\ UNCHANGED <<apiDown, ogs, csvPhase, ctxDone, locals>>

\* OLM writes an install plan's status, which changes its resourceVersion
OLMTouchInstallPlan ==
    /\ Watched
    /\ \E n \in IPNames :
          /\ ips[n].exists
          /\ ips[n].rv < MaxRV
          /\ ips' = [ips EXCEPT ![n].rv = @ + 1]
    /\ UNCHANGED <<apiDown, ogs, clusterSub, csvPhase, ctxDone, locals>>

\* OLM moves the CSV through its phases
OLMAdvanceCSV ==
    /\ Watched
    /\ \E n \in IPNames : ips[n].approved
    /\ \/ csvPhase = "Absent" /\ csvPhase' = "Pending"
       \/ csvPhase = "Pending" /\ csvPhase' \in {"Succeeded", "Failed"}
    /\ UNCHANGED <<apiDown, ogs, clusterSub, ips, ctxDone, locals>>

\* OLM fills in status.namespaces of an operator group from its spec
OLMSyncOperatorGroup ==
    /\ Watched
    /\ \E g \in ogs :
          /\ g.status.isNil
          /\ ogs' = (ogs \ {g}) \cup {[g EXCEPT !.status = Slice(g.spec)]}
    /\ UNCHANGED <<apiDown, clusterSub, ips, csvPhase, ctxDone, locals>>

Step(r) ==
    \/ CreateCatalog(r)
    \/ createOperatorGroup_List(r)
    \/ createOperatorGroup_Create(r)
    \/ createSubscription(r)
    \/ waitForInstallPlan_Immediate(r)
    \/ waitForInstallPlan_Select(r)
    \/ waitForInstallPlan_Tick(r)
    \/ waitForInstallPlan_Stop(r)
    \/ approveInstallPlan(r)
    \/ approveInstallPlan_Get(r)
    \/ approveInstallPlan_Update(r)
    \/ getInstalledCSV(r)
    \/ DoCSVWait_Poll(r)
    \/ DoCSVWait_Stop(r)
    \/ getInstalledCSV_Get(r)

Environment ==
    \/ \E r \in Runs : Cancel(r)
    \/ APIServerFlip
    \/ OLMResolveSubscription
    \/ OLMTouchInstallPlan
    \/ OLMAdvanceCSV
    \/ OLMSyncOperatorGroup

Next == (\E r \in Runs : Step(r)) \/ Environment

Spec == Init /\ [][Next]_vars

\* A run goes on: a call that was issued returns, the 200ms poller ticks, and
\* a select with a closed stop channel is not passed over for ever. Nothing is
\* assumed of OLM, of the API server or of the caller.
Fairness ==
    \A r \in Runs :
        /\ WF_vars(Step(r))
        /\ WF_vars(waitForInstallPlan_Immediate(r))
        /\ WF_vars(waitForInstallPlan_Select(r))
        /\ WF_vars(waitForInstallPlan_Tick(r))
        /\ WF_vars(waitForInstallPlan_Stop(r))

\* the runs that start in a namespace without operator groups, for no
\* target namespace or for one: what follows the operator group step depends
\* neither on the groups found nor on the target namespaces
InitNoGroups ==
    /\ Init
    /\ ogs = {}
    /\ InstallMode[1] \in {NilSlice, Slice(<<"ns1">>)}

FairSpec == InitNoGroups /\ [][Next]_vars /\ Fairness

\* Two calls of InstallOperator at once on a namespace without operator
\* groups, each with target namespaces of its own, followed up to the return
\* of createOperatorGroup: the steps after it neither read nor write operator
\* groups. Each call of the API server is one step, so the Lists and Creates
\* of the two runs interleave in every order.
InitConcurrent ==
    /\ InitRuns(Runs)
    /\ ogs = {}
    /\ ~clusterSub.exists

EnsureOperatorGroup(r) ==
    \/ CreateCatalog(r)
    \/ createOperatorGroup_List(r)
    \/ createOperatorGroup_Create(r)

ConcurrentNext ==
    \/ \E r \in Runs : EnsureOperatorGroup(r)
    \/ APIServerFlip
    \/ OLMSyncOperatorGroup

ConcurrentSpec == InitConcurrent /\ [][ConcurrentNext]_vars

\* ================================================================ claims
\* the helper step of InstallOperator a cluster call belongs to (an index of
\* StepNames), and the place of the call in the order of InstallOperator
OpStep(op) ==
    CASE op = "CreateCatalog" -> 1
      [] op \in {"ListOperatorGroups", "CreateOperatorGroup"} -> 2
      [] op = "CreateSubscription" -> 3
      [] op = "GetSubscription" -> 4
      [] op \in {"GetInstallPlan", "UpdateInstallPlan"} -> 5
      [] op \in {"DoCSVWait", "GetCSV"} -> 6

OpRank(op) ==
    CASE op = "CreateCatalog" -> 1
      [] op = "ListOperatorGroups" -> 2
      [] op = "CreateOperatorGroup" -> 3
      [] op = "CreateSubscription" -> 4
      [] op = "GetSubscription" -> 5
      [] op \in {"GetInstallPlan", "UpdateInstallPlan"} -> 6
      [] op = "DoCSVWait" -> 7
      [] op = "GetCSV" -> 8

OneShotOps == {"CreateCatalog", "ListOperatorGroups", "CreateOperatorGroup",
               "CreateSubscription", "DoCSVWait", "GetCSV"}

OkCall(r, op) == \E i \in DOMAIN log[r] : log[r][i].op = op /\ log[r][i].ok
Called(r, op) == \E i \in DOMAIN log[r] : log[r][i].op = op

\* the calls a helper step that returned success must have made
StepDid(r, s) ==
    CASE s = "CreateCatalog" -> OkCall(r, "CreateCatalog")
      [] s = "createOperatorGroup" ->
            /\ OkCall(r, "ListOperatorGroups")
            /\ Called(r, "CreateOperatorGroup") => OkCall(r, "CreateOperatorGroup")
      [] s = "createSubscription" -> OkCall(r, "CreateSubscription")
      [] s = "waitForInstallPlan" -> OkCall(r, "GetSubscription")
      [] s = "approveInstallPlan" ->
            OkCall(r, "GetInstallPlan") /\ OkCall(r, "UpdateInstallPlan")
      [] s = "getInstalledCSV" -> OkCall(r, "DoCSVWait") /\ OkCall(r, "GetCSV")

Returned(r) == pc[r] = "done"
Succeeded(r) == Returned(r) /\ retErr[r] = NoErr

\* C1: the cluster calls of a run of InstallOperator are issued in the one
\* order catalog source, operator group (list, then possibly create),
\* subscription, polls of the subscription, install plan get/update, CSV wait,
\* CSV get; a call of a step is issued only when every earlier step has
\* returned success, a step that returned success has made its calls, and a
\* run that returns success has gone through every step.
C1_FixedOrder ==
    \A r \in Runs :
        LET l == log[r]
        IN /\ \A i, j \in DOMAIN l : i < j => OpRank(l[i].op) <= OpRank(l[j].op)
           /\ \A i \in DOMAIN l : \A k \in 1..(OpStep(l[i].op) - 1) :
                  stepResult[r][StepNames[k]] = "ok"
           /\ \A s \in StepSet : stepResult[r][s] = "ok" => StepDid(r, s)
           /\ \A op \in OneShotOps : NumCalls(l, op) <= 1
           /\ Succeeded(r) => \A s \in StepSet : stepResult[r][s] = "ok"

\* a run that created its operator group, polled the subscription more than
\* once and returned the CSV
C1_Witness ==
    /\ Succeeded(1)
    /\ OkCall(1, "CreateOperatorGroup")
    /\ NumCalls(log[1], "GetSubscription") >= 2
    /\ retCSV[1] = StartingCSV

FirstFailed(r) ==
    CHOOSE k \in DOMAIN StepNames :
        /\ stepResult[r][StepNames[k]] = "failed"
        /\ \A j \in 1..(k - 1) : stepResult[r][StepNames[j]] # "failed"

AnyFailed(r) == \E s \in StepSet : stepResult[r][s] = "failed"

\* C3: once a step of InstallOperator has failed, InstallOperator has
\* returned a nil CSV and a non-nil error, and the run has issued no call of a
\* later step (no subscription after a failed operator group step, no install
\* plan update after a failed install plan wait).
C3_FailStops ==
    \A r \in Runs :
        AnyFailed(r) =>
            /\ Returned(r)
            /\ retCSV[r] = Nil
            /\ retErr[r] # NoErr
            /\ \A i \in DOMAIN log[r] : OpStep(log[r][i].op) <= FirstFailed(r)
            /\ \A s \in StepSet : stepResult[r][s] = "failed" => s = StepNames[FirstFailed(r)]

\* a run whose subscription could not be created because one of that name
\* exists
C3_Witness ==
    /\ stepResult[1]["createSubscription"] = "failed"
    /\ \E i \in DOMAIN log[1] : log[1][i].op = "CreateSubscription"
                                  /\ log[1][i].reason = "AlreadyExists"
    /\ Returned(1)

\* C4: InstallOperator returns a CSV with a nil error only after, in the
\* same run, CreateCatalog succeeded, the operator group step succeeded, the
\* subscription was created, an Update of the install plan succeeded and the CSV
\* wait for StartingCSV in Namespace reported success; and whenever it has
\* returned, exactly one of the CSV and the error is non-nil.
C4_SuccessOnlyAfterAll ==
    \A r \in Runs :
        /\ Returned(r) => ((retCSV[r] # Nil) # (retErr[r] # NoErr))
        /\ (Returned(r) /\ retCSV[r] # Nil) =>
              /\ OkCall(r, "CreateCatalog")
              /\ stepResult[r]["createOperatorGroup"] = "ok"
              /\ OkCall(r, "CreateSubscription")
              /\ OkCall(r, "UpdateInstallPlan")
              /\ \E n \in IPNames : ips[n].approved
              /\ \E i \in DOMAIN log[r] :
                    /\ log[r][i] = Entry("DoCSVWait", Namespace, StartingCSV, NoErr)
                    /\ \A j \in DOMAIN log[r] : log[r][j].op = "UpdateInstallPlan" => j < i

\* a run that returned the CSV using an operator group that existed already
C4_Witness ==
    /\ Succeeded(1)
    /\ retCSV[1] = StartingCSV
    /\ ~Called(1, "CreateOperatorGroup")
    /\ csvPhase = "Succeeded"

LastCall(r) == log[r][Len(log[r])]

\* C2: an Update of the install plan that fails with a conflict while the
\* retry budget is not used up is not returned to the caller:
\* approveInstallPlan is still running and goes on to get the install plan
\* again.
C2_ConflictIsRetried ==
    \A r \in Runs :
        (/\ Len(log[r]) > 0
         /\ LastCall(r).op = "UpdateInstallPlan"
         /\ LastCall(r).reason = "Conflict"
         /\ NumCalls(log[r], "UpdateInstallPlan") < Steps)
        => /\ pc[r] = "approveGet"
           /\ stepResult[r]["approveInstallPlan"] = ""

\* the number of each namespace in a list
Count(s, n) == Cardinality({i \in DOMAIN s : s[i] = n})
SameNamespaces(a, b) == \A n \in Namespaces : Count(a, n) = Count(b, n)

\* C5: a run calls Create for an operator group only after a List that
\* returned no group, it does so once, and the group created is the SDK group
\* whose target namespaces are the install mode's; after a List that returned
\* exactly one group the run never calls Create for an operator group.
C5_CreateOnlyWhenNone ==
    \A r \in Runs :
        /\ Called(r, "CreateOperatorGroup") =>
              /\ OkCall(r, "ListOperatorGroups")
              /\ ogList[r] = {}
              /\ NumCalls(log[r], "CreateOperatorGroup") = 1
        /\ OkCall(r, "CreateOperatorGroup") =>
              \E g \in ogs : /\ g.name = SDKOperatorGroupName
                              /\ g.spec = InstallMode[r].items
        /\ Cardinality(ogList[r]) = 1 => ~Called(r, "CreateOperatorGroup")

\* a run that created the operator group for a list of two target namespaces
C5_Witness ==
    /\ OkCall(1, "CreateOperatorGroup")
    /\ InstallMode[1].items = <<"ns2", "ns1">>
    /\ \E g \in ogs : g.name = SDKOperatorGroupName /\ g.spec = <<"ns2", "ns1">>

CompatibilityMessages ==
    {"existing SDK-managed operator group's namespaces do not match desired namespaces",
     "existing operator group's namespaces do not match desired namespaces"}

\* C6: when List returned exactly one operator group, createOperatorGroup
\* fails if the group's status namespaces and the desired target namespaces
\* differ, and the run then never creates a subscription; if they are the same
\* it succeeds without a Create and the group stays as it was.
C6_ExistingGroup ==
    \A r \in Runs :
        (stepResult[r]["createOperatorGroup"] # "" /\ Cardinality(ogList[r]) = 1) =>
            LET g == CHOOSE x \in ogList[r] : TRUE
            IN IF SameNamespaces(g.status.items, InstallMode[r].items)
               THEN /\ stepResult[r]["createOperatorGroup"] = "ok"
                    /\ ~Called(r, "CreateOperatorGroup")
                    /\ Cardinality(ogs) = 1
                    /\ \E x \in ogs : /\ x.name = g.name
                                        /\ x.spec = g.spec
                                        /\ (x.status = g.status \/ g.status.isNil)
               ELSE /\ stepResult[r]["createOperatorGroup"] = "failed"
                    /\ retErr[r].msg \in CompatibilityMessages
                    /\ Returned(r)
                    /\ ~Called(r, "CreateSubscription")

\* a run refused because of the existing group's namespaces, the desired
\* ones being a reordering of a different multiset
C6_Witness ==
    /\ stepResult[1]["createOperatorGroup"] = "failed"
    /\ \E g \in ogList[1] : g.status.items = <<"ns1", "ns1">>
    /\ Cardinality(ogList[1]) = 1
    /\ InstallMode[1].items = <<"ns2", "ns1">>
    /\ Returned(1)

\* C7: when List returned more than one operator group, getOperatorGroup
\* reports found with no group and an error, and createOperatorGroup returns
\* that error, having neither compared namespaces nor called Create.
C7_ManyGroups ==
    \A r \in Runs :
        Cardinality(ogList[r]) > 1 =>
            LET got == getOperatorGroup(NoErr, ogList[r])
            IN /\ got.found
               /\ got.og = NoOG
               /\ got.err.msg = "more than one operator group in namespace"
               /\ stepResult[r]["createOperatorGroup"] = "failed"
               /\ Returned(r)
               /\ retErr[r] = got.err
               /\ ~Called(r, "CreateOperatorGroup")

\* a run that found two operator groups
C7_Witness ==
    /\ Cardinality(ogList[1]) = 2
    /\ Returned(1)
    /\ retErr[1].msg = "more than one operator group in namespace"

InWait(r) == pc[r] \in {"waitForInstallPlan", "waitSelect", "waitLoop"}
WaitOK(r) == stepResult[r]["waitForInstallPlan"] = "ok"
WaitFailed(r) == stepResult[r]["waitForInstallPlan"] = "failed"
RefSet == ~clusterSub.ref.isNil

\* the results of waitForInstallPlan: success exactly when a poll read a
\* non-nil reference, and any other return is "install plan is not available"
WaitResults ==
    \A r \in Runs :
        /\ WaitOK(r) <=> ~observedRef[r].isNil
        /\ WaitFailed(r) =>
              /\ Returned(r)
              /\ retErr[r].msg = "install plan is not available for the subscription"

\* C8 as stated, in the form a finite run decides. Its last sentence has the
\* wait return success whenever the reference is set and the Gets succeed, so
\* a wait that ends at a moment when the subscription carries a reference and
\* the API server answers must end in success.
C8_SuccessWheneverRefSet ==
    [][\A r \in Runs :
          (InWait(r) /\ RefSet /\ ~apiDown /\ ~InWait(r)') => WaitOK(r)']_vars

\* C8, amended: waitForInstallPlan returns once the subscription has a
\* reference or the context is done; it returns success exactly when a poll
\* read a non-nil reference and otherwise the error "install plan is not
\* available"; and with the reference set, every Get succeeding and the
\* context never cancelled from some point of the wait on, it returns success.
C8_WaitTerminates ==
    /\ []WaitResults
    /\ \A r \in Runs : (InWait(r) /\ (RefSet \/ ctxDone[r])) ~> ~InWait(r)
    /\ \A r \in Runs :
          [](InWait(r) /\ RefSet /\ [](~apiDown /\ ~ctxDone[r]) => <>WaitOK(r))

\* the wait ended by the context after two polls that read no reference
C8_Witness ==
    /\ WaitFailed(1)
    /\ ctxDone[1]
    /\ NumCalls(log[1], "GetSubscription") >= 2
    /\ \A i \in DOMAIN log[1] : log[1][i].ok
    /\ observedRef[1].isNil

IPOps(r) == {i \in DOMAIN log[r] : log[r][i].op \in {"GetInstallPlan", "UpdateInstallPlan"}}

\* C9: approveInstallPlan is entered only with the non-nil reference the
\* last successful poll of waitForInstallPlan read into the subscription, it
\* never dereferences a nil reference, and every Get and Update of an install
\* plan is for the name and namespace of that reference.
C9_ApproveUsesObservedRef ==
    \A r \in Runs :
        /\ pc[r] # "panic"
        /\ pc[r] = "approveInstallPlan" =>
              /\ ~sub[r].ref.isNil
              /\ sub[r].ref = observedRef[r]
              /\ sub[r].ref.name \in IPNames
        /\ pc[r] \in {"approveGet", "approveUpdate"} =>
              ipKey[r] = [name |-> observedRef[r].name,
                          namespace |-> observedRef[r].namespace]
        /\ \A i \in IPOps(r) :
              /\ ~observedRef[r].isNil
              /\ log[r][i].name = observedRef[r].name
              /\ log[r][i].ns = observedRef[r].namespace

\* an install plan approved that is not the one the subscription now refers
\* to: the reference was replaced after the poll that read it
C9_Witness ==
    /\ OkCall(1, "UpdateInstallPlan")
    /\ observedRef[1] = Ref("install-1")
    /\ clusterSub.ref = Ref("install-2")
    /\ ips["install-1"].approved

\* C10: approveInstallPlan makes at most Steps attempts (Gets, and so
\* Updates), makes no attempt after an Update that succeeded, and an error of
\* a Get or an Update that is not a conflict is its last call: the run has
\* then returned that error.
C10_BoundedRetry ==
    \A r \in Runs :
        /\ NumCalls(log[r], "GetInstallPlan") <= Steps
        /\ NumCalls(log[r], "UpdateInstallPlan") <= Steps
        /\ \A i \in IPOps(r) :
              /\ (log[r][i].op = "UpdateInstallPlan" /\ log[r][i].ok) =>
                    /\ \A j \in IPOps(r) : j <= i
                    /\ stepResult[r]["approveInstallPlan"] = "ok"
              /\ (~log[r][i].ok /\ log[r][i].reason # "Conflict") =>
                    /\ i = Len(log[r])
                    /\ stepResult[r]["approveInstallPlan"] = "failed"
                    /\ Returned(r)
                    /\ retErr[r].msg = IF log[r][i].op = "GetInstallPlan"
                                       THEN "error getting install plan"
                                       ELSE "error approving install plan"

\* an Update refused for a reason other than a conflict ended the run
C10_Witness ==
    /\ Len(log[1]) > 0
    /\ LastCall(1).op = "UpdateInstallPlan"
    /\ LastCall(1).reason = "ServiceUnavailable"
    /\ Returned(1)
    /\ retErr[1].msg = "error approving install plan"

\* run r takes a step of its own: it moves on, or it records a call
RunActs(r) == pc'[r] # pc[r] \/ log'[r] # log[r]

\* every Update in the log of run r comes right after a Get of the same
\* install plan that succeeded, and the object held for the Update is the
\* install plan of the key, approved
UpdateFollowsGet(r) ==
    /\ \A i \in DOMAIN log[r] :
          log[r][i].op = "UpdateInstallPlan" =>
              /\ i > 1
              /\ log[r][i - 1].op = "GetInstallPlan"
              /\ log[r][i - 1].ok
              /\ log[r][i - 1].name = log[r][i].name
              /\ log[r][i - 1].ns = log[r][i].ns
    /\ pc[r] = "approveUpdate" =>
          /\ Len(log[r]) > 0
          /\ LastCall(r).op = "GetInstallPlan"
          /\ LastCall(r).ok
          /\ ip[r].name = ipKey[r].name
          /\ ip[r].approved

\* what a step of run r may write in the cluster: it creates, and it updates
\* the one install plan it holds, from the version it read, to approved
WritesOnlyApproval(r) ==
    /\ (pc[r] = "approveGet" /\ pc'[r] = "approveUpdate") =>
          ip'[r] = [name |-> ipKey[r].name, approved |-> TRUE,
                    rv |-> ips[ipKey[r].name].rv]
    /\ \A g \in ogs : g \in ogs'
    /\ clusterSub.exists => clusterSub' = clusterSub
    /\ csvPhase' = csvPhase
    /\ \A n \in IPNames :
          ips'[n] # ips[n] =>
              /\ pc[r] = "approveUpdate"
              /\ n = ip[r].name
              /\ ip[r].rv = ips[n].rv
              /\ ips'[n] = [exists |-> TRUE, approved |-> TRUE, rv |-> ips[n].rv + 1]

\* C11: every Update of an install plan is issued right after a successful
\* Get of the same install plan in the same attempt; the object sent is the
\* version read with Approved set to true, so an Update that succeeds leaves
\* the install plan approved and changes nothing else of it; no step of the
\* installer sets Approved to false, and no step updates or deletes an
\* operator group, a subscription, a CSV or another install plan.
C11_UpdateFollowsGet ==
    /\ [](\A r \in Runs : UpdateFollowsGet(r))
    /\ [][\A r \in Runs : RunActs(r) => WritesOnlyApproval(r)]_vars

\* an Update of an install plan that was not approved succeeded
C11_Witness ==
    /\ Len(log[1]) > 1
    /\ LastCall(1).op = "UpdateInstallPlan"
    /\ LastCall(1).ok
    /\ log[1][Len(log[1]) - 1].op = "GetInstallPlan"
    /\ ips[LastCall(1).name].approved
    /\ ips[LastCall(1).name].rv = ip[1].rv

\* the one operator group the List of run r returned, and whether
\* createOperatorGroup accepted it
FoundGroup(r) == CHOOSE g \in ogList[r] : TRUE
Compared(r) == stepResult[r]["createOperatorGroup"] # "" /\ Cardinality(ogList[r]) = 1
Accepted(r) == stepResult[r]["createOperatorGroup"] = "ok"

\* C12: the check of the one existing operator group accepts it exactly when
\* its status namespaces and the desired target namespaces are the same once
\* both are sorted, which is when they are equal as multisets; the order of
\* the desired list does not matter; a nil list counts as an empty one on
\* either side, so a nil or empty status list is accepted for a nil or empty
\* desired list.
C12_OrderInsensitiveMatch ==
    \A r \in Runs :
        Compared(r) =>
            LET status == FoundGroup(r).status
                T == InstallMode[r]
            IN /\ Accepted(r) <=> SortSeq(status.items, NsLess) = SortSeq(T.items, NsLess)
               /\ Accepted(r) <=> SameNamespaces(status.items, T.items)
               /\ Accepted(r) <=> NamespacesMatch(status, CopyTargetNamespaces(T))
               /\ \A p \in NsLists :
                     SameNamespaces(p, T.items) =>
                         /\ NamespacesMatch(status, CopyTargetNamespaces(Slice(p)))
                                <=> Accepted(r)
                         /\ NamespacesMatch(Slice(p), CopyTargetNamespaces(Slice(status.items)))
                                <=> Accepted(r)
               /\ (status.items = <<>> /\ T.items = <<>>) => Accepted(r)
               /\ (status.items = <<>>) # (T.items = <<>>) => ~Accepted(r)

\* a group whose status namespaces are nil was accepted for a nil list of
\* target namespaces
C12_Witness ==
    /\ Compared(1)
    /\ Accepted(1)
    /\ FoundGroup(1).status.isNil
    /\ InstallMode[1].isNil

\* a group was accepted whose status namespaces are the desired ones in
\* another order
C12_WitnessReordered ==
    /\ Compared(1)
    /\ Accepted(1)
    /\ FoundGroup(1).status.items = <<"ns2", "ns1">>
    /\ InstallMode[1].items = <<"ns1", "ns2">>

\* the Create of a subscription in the log of run r (there is at most one)
SubCreates(r) == {i \in DOMAIN log[r] : log[r][i].op = "CreateSubscription"}

\* run r has been through createSubscription
PastCreateSubscription(r) == stepResult[r]["createSubscription"] # ""

\* the Create of run r, once made: the subscription it is for, the
\* subscription in the cluster after a success, the error returned after a
\* failure
SubscriptionCreated(r) ==
    \A i \in SubCreates(r) :
        /\ log[r][i].ns = Namespace
        /\ log[r][i].name = getSubscriptionName[StartingCSV]
        /\ cs[r] \in CatalogNames
        /\ IF log[r][i].ok
           THEN /\ stepResult[r]["createSubscription"] = "ok"
                /\ clusterSub.exists
                /\ clusterSub.spec =
                      [name |-> getSubscriptionName[StartingCSV],
                       namespace |-> Namespace,
                       package |-> PackageName, channel |-> Channel,
                       startingCSV |-> StartingCSV,
                       catalogSource |-> cs[r], catalogSourceNamespace |-> Namespace,
                       approval |-> "Manual"]
           ELSE /\ stepResult[r]["createSubscription"] = "failed"
                /\ Returned(r)
                /\ i = Len(log[r])
                /\ retErr[r].msg = "error creating subscription"
                /\ retErr[r].reason = log[r][i].reason
                /\ retCSV[r] = Nil
                /\ sub[r] = NoSub

\* C13: a run that gets to createSubscription issues one Create there and no
\* other (a run that stopped before issues none): for the subscription named
\* after StartingCSV in the configured namespace, with manual approval, the
\* configured package, channel and starting CSV and the catalog source that
\* CreateCatalog returned, in the configured namespace; when the Create fails
\* the run returns "error creating subscription" wrapping the cause, and the
\* step leaves the subscription in the cluster as it was.
C13_OneCreate ==
    /\ [](\A r \in Runs :
             /\ Cardinality(SubCreates(r)) <= 1
             /\ PastCreateSubscription(r) <=> Cardinality(SubCreates(r)) = 1
             /\ SubscriptionCreated(r))
    /\ [][\A r \in Runs :
             (pc[r] = "createSubscription" /\ RunActs(r)) =>
                 /\ Cardinality(SubCreates(r)') = 1
                 /\ ~LastCall(r)'.ok => clusterSub' = clusterSub]_vars

\* the Create was refused because a subscription of that name exists; the
\* run returned the error and the subscription is the one that was there
C13_Witness ==
    /\ SubCreates(1) # {}
    /\ LastCall(1).op = "CreateSubscription"
    /\ LastCall(1).reason = "AlreadyExists"
    /\ Returned(1)
    /\ retErr[1] = [msg |-> "error creating subscription", reason |-> "AlreadyExists"]
    /\ clusterSub = [exists |-> TRUE, spec |-> OtherSubscription, ref |-> NilRef]

\* run r is through createOperatorGroup and the API server answered each of
\* its calls
ThroughOperatorGroup(r) ==
    /\ stepResult[r]["createOperatorGroup"] # ""
    /\ \A i \in DOMAIN log[r] : log[r][i].reason # "ServiceUnavailable"

\* C14 as stated: of two runs on a namespace without operator groups, once
\* the Create of one has succeeded, the other run, when it is through
\* createOperatorGroup, has failed with "error creating OperatorGroup".
C14_OtherRunFailsCreating ==
    \A r \in Runs : \A q \in Runs \ {r} :
        (OkCall(r, "CreateOperatorGroup") /\ ThroughOperatorGroup(q)) =>
            /\ stepResult[q]["createOperatorGroup"] = "failed"
            /\ retErr[q].msg = "error creating OperatorGroup"

\* C14: two runs on a namespace without operator groups never leave more
\* than one operator group, in any interleaving of their Lists and Creates:
\* a group is only created under the SDK operator group name, so at most one
\* Create succeeds. A run whose List returned no group calls Create, and when
\* that Create is refused the run fails with "error creating OperatorGroup"
\* and does not use the group that exists. A run whose List came after the
\* Create of the other finds that group and calls no Create: it goes on when
\* the group's status namespaces match its target namespaces and fails with
\* the error of an incompatible SDK-managed group otherwise.
C14_AtMostOneGroup ==
    /\ Cardinality(ogs) <= 1
    /\ \A g \in ogs : g.name = SDKOperatorGroupName
    /\ Cardinality({r \in Runs : OkCall(r, "CreateOperatorGroup")}) <= 1
    /\ Cardinality({r \in Runs : OkCall(r, "CreateOperatorGroup")}) = Cardinality(ogs)
    /\ \A q \in Runs :
          /\ Called(q, "CreateOperatorGroup") <=>
                (OkCall(q, "ListOperatorGroups") /\ ogList[q] = {}
                    /\ pc[q] # "createOperatorGroup")
          /\ (Called(q, "CreateOperatorGroup") /\ ~OkCall(q, "CreateOperatorGroup")) =>
                /\ stepResult[q]["createOperatorGroup"] = "failed"
                /\ Returned(q)
                /\ retErr[q].msg = "error creating OperatorGroup"
                /\ retErr[q].reason = LastCall(q).reason
                /\ retErr[q].reason = "AlreadyExists" =>
                      \E r \in Runs \ {q} : OkCall(r, "CreateOperatorGroup")
          /\ ogList[q] # {} =>
                /\ Cardinality(ogList[q]) = 1
                /\ \E r \in Runs \ {q} : OkCall(r, "CreateOperatorGroup")
                /\ FoundGroup(q).name = SDKOperatorGroupName
                /\ IF SameNamespaces(FoundGroup(q).status.items, InstallMode[q].items)
                   THEN Accepted(q)
                   ELSE /\ Returned(q)
                        /\ retErr[q].msg =
                              "existing SDK-managed operator group's namespaces do not match desired namespaces"

\* both runs listed no group and both called Create: one created the group,
\* the other was refused and returned the error
C14_Witness ==
    /\ Cardinality(ogs) = 1
    /\ OkCall(1, "CreateOperatorGroup")
    /\ Called(2, "CreateOperatorGroup")
    /\ ogList[1] = {} /\ ogList[2] = {}
    /\ Returned(2)
    /\ retErr[2] = [msg |-> "error creating OperatorGroup", reason |-> "AlreadyExists"]

\* a run listed after the Create of the other and went on with the group
C14_WitnessUsesExisting ==
    /\ OkCall(1, "CreateOperatorGroup")
    /\ Cardinality(ogList[2]) = 1
    /\ Accepted(2)
====
